---- MODULE Spec2Model ----
(***************************************************************************)
(* Conway's Game of Life: the engine of src/src/grid.rs (Grid: bounds,     *)
(* wrap, next_generation), the session of src/src/game.rs (GameOfLife:     *)
(* add_cell, toggle_cell, clear, random_fill, next_generation,             *)
(* apply_pattern), the pattern stamps of src/src/patterns.rs and the wrap  *)
(* toggle of src/src/ui.rs.                                                *)
(*                                                                         *)
(* A Position is the pair <<x, y>>.  A live set is a set of Positions.     *)
(***************************************************************************)
EXTENDS Integers, Sequences, FiniteSets, TLC

VARIABLES
    width,        \* Grid.width
    height,       \* Grid.height
    wrap_world,   \* Grid.wrap_world
    live,         \* GameOfLife.live
    generation,   \* GameOfLife.generation
    lastOp,       \* observer: the operation that produced this state
    advances,     \* observer: next_generation calls since construction or the last clear
    live0,        \* observer: the live set an advance run started from
    arg,          \* observer: the call arguments a specification drew as its input (<<>> if none)
    main_game     \* main.rs: the GameOfLife of the standalone program run alongside (<<>> if none)

vars == <<width, height, wrap_world, live, generation, lastOp, advances, live0, arg, main_game>>

(***************************************************************************)
(* Bounds of the model.                                                    *)
(***************************************************************************)
SessCells == 4      \* session boards: every width x height with area <= SessCells
MaxGen == 2         \* session: next_generation calls explored per run
Reach == 1          \* session and stamps: coordinates range Reach cells past each edge
MaxCells == 9      \* advance as a function: boards with area <= MaxCells
StampCells == 24    \* stamp then advance: boards with area <= StampCells
StampGens == 2      \* stamp then advance: generations explored
RunW == 24          \* long runs: width of the large board
RunH == 28          \* long runs: height of the large board
RunGens == 131      \* long runs: generations explored
AnchorSpan == 1     \* long runs: anchors tried on the large board, per axis
PlaceCells == 12    \* one stamp: boards with area <= PlaceCells
EditCells == 4      \* insert and toggle: boards with area <= EditCells
Laps == 1           \* insert and toggle: coordinates range Laps board lengths (and a cell) past each edge
MaxDim == 2         \* construction: width and height range over -1..MaxDim
NearMax == 2        \* stamps near the i32 limit: anchors from I32_MAX - NearMax to I32_MAX
OscW == 28          \* oscillators: width of the board
OscH == 20          \* oscillators: height of the board
OscGens == 16       \* oscillators: generations explored
SplitCells == 4     \* split counting: boards with area <= SplitCells
TwinCells == 4      \* two engines: boards with area <= TwinCells
GrowCells == 4      \* stamps on any live set: boards with area <= GrowCells

Boards(n) == {b \in (1..n) \X (1..n) : b[1] * b[2] <= n}

Cells(w, h) == (0..(w - 1)) \X (0..(h - 1))

Coords(w, h) == ((0 - Reach)..(w - 1 + Reach)) \X ((0 - Reach)..(h - 1 + Reach))

WideCoords(w, h) ==
    ((0 - Laps * w - 1)..((Laps + 1) * w)) \X ((0 - Laps * h - 1)..((Laps + 1) * h))

(***************************************************************************)
(* grid.rs                                                                 *)
(***************************************************************************)
\* the offset table with its last entry lost
NEIGHBOR_OFFSETS_seven ==
    << <<-1, -1>>, <<0, -1>>, <<1, -1>>,
       <<-1,  0>>,            <<1,  0>>,
       <<-1,  1>>, <<0,  1>> >>

\* the offset table with the cell itself added
NEIGHBOR_OFFSETS_nine ==
    << <<-1, -1>>, <<0, -1>>, <<1, -1>>,
       <<-1,  0>>, <<0,  0>>, <<1,  0>>,
       <<-1,  1>>, <<0,  1>>, <<1,  1>> >>

NEIGHBOR_OFFSETS ==
    << <<-1, -1>>, <<0, -1>>, <<1, -1>>,
       <<-1,  0>>,            <<1,  0>>,
       <<-1,  1>>, <<0,  1>>, <<1,  1>> >>

\* Position(pub i32, pub i32): the largest and the smallest i32
I32_MAX == 2147483647

I32_MIN == 0 - I32_MAX - 1

\* a + b leaves the i32 range: a panic in a build with overflow checks (debug)
i32_add_overflows(a, b) ==
    \/ b > 0 /\ a > I32_MAX - b
    \/ b < 0 /\ a < I32_MIN - b

\* a + b on i32 in a build without overflow checks (release): the sum modulo 2^32
i32_add(a, b) ==
    IF b > 0 /\ a > I32_MAX - b THEN I32_MIN + (a - (I32_MAX - b) - 1)
    ELSE IF b < 0 /\ a < I32_MIN - b THEN I32_MAX - ((I32_MIN - b) - a - 1)
    ELSE a + b

\* Rust's % on i32: the remainder truncates toward zero, takes the sign of a and
\* ignores the sign of b.  A negative a is first raised by |b|, which keeps the
\* remainder and keeps the negation within the i32 range.  b = 0 is a panic: see Panics.
i32_rem(a, b) ==
    IF b > 0
        THEN IF a >= 0 THEN a % b ELSE 0 - ((0 - (a + b)) % b)
        ELSE IF a >= 0 THEN a % (0 - b) ELSE 0 - ((0 - (a - b)) % (0 - b))

\* in_bounds with the lower limits forgotten
in_bounds_upper_only(w, h, x, y) == x < w /\ y < h

in_bounds(w, h, x, y) == (0 <= x /\ x < w) /\ (0 <= y /\ y < h)

\* wrap without the correction of a negative remainder
wrap_truncating(w, h, x, y) == <<i32_rem(x, w), i32_rem(y, h)>>

wrap(w, h, x, y) ==
    LET nx == i32_rem(x, w)
        ny == i32_rem(y, h)
    IN  << IF nx < 0 THEN nx + w ELSE nx,
           IF ny < 0 THEN ny + h ELSE ny >>

\* the candidate p of one pass of the inner loop: cell + (dx, dy), wrapped in wrap mode
\* (a live cell is a cell of the board, so cell + 1 and cell - 1 are within i32)
Target(w, h, wr, cell, d) ==
    IF wr THEN wrap(w, h, cell[1] + d[1], cell[2] + d[2])
          ELSE <<cell[1] + d[1], cell[2] + d[2]>>

\* the bounds test of the counting loop left out
Counted_unchecked(w, h, wr, p) == TRUE

\* if self.wrap_world || self.in_bounds(p.x(), p.y())
Counted(w, h, wr, p) == wr \/ in_bounds(w, h, p[1], p[2])

\* the passes <<cell, i>> of the two loops that run  *counts.entry(p).or_insert(0) += 1
Increments(L, w, h, wr) ==
    {ci \in L \X (1..Len(NEIGHBOR_OFFSETS)) :
        Counted(w, h, wr, Target(w, h, wr, ci[1], NEIGHBOR_OFFSETS[ci[2]]))}

\* a map that records presence: 1 for every key that was incremented
neighbor_counts_presence(L, w, h, wr) ==
    LET incs == Increments(L, w, h, wr)
        hit(ci) == Target(w, h, wr, ci[1], NEIGHBOR_OFFSETS[ci[2]])
    IN  [p \in {hit(ci) : ci \in incs} |-> 1]

\* or_insert(1) in place of or_insert(0): every key starts one too high
neighbor_counts_from_one(L, w, h, wr) ==
    LET incs == Increments(L, w, h, wr)
        hit(ci) == Target(w, h, wr, ci[1], NEIGHBOR_OFFSETS[ci[2]])
    IN  [p \in {hit(ci) : ci \in incs} |-> 1 + Cardinality({ci \in incs : hit(ci) = p})]

\* the HashMap counts when both loops are done: a key for every p that was
\* incremented, its value the number of increments it received
neighbor_counts(L, w, h, wr) ==
    LET incs == Increments(L, w, h, wr)
        hit(ci) == Target(w, h, wr, ci[1], NEIGHBOR_OFFSETS[ci[2]])
    IN  [p \in {hit(ci) : ci \in incs} |-> Cardinality({ci \in incs : hit(ci) = p})]

\* the rule with births only
RuleBirthOnly(n, alive) == n = 3

\* the rule with the liveness test dropped from survival
RuleIgnoresAlive(n, alive) == n = 3 \/ n = 2

\* the rule with 2 and 3 exchanged
RuleSwapped(n, alive) == n = 2 \/ (alive /\ n = 3)

\* n == 3 || (alive && n == 2)
Rule(n, alive) == n = 3 \/ (alive /\ n = 2)

\* a scan of the whole board that reads a missing count as 3
next_generation_default3(L, w, h, wr) ==
    LET counts == neighbor_counts(L, w, h, wr)
    IN  {pos \in Cells(w, h) \cup DOMAIN counts :
            Rule(IF pos \in DOMAIN counts THEN counts[pos] ELSE 3, pos \in L)}

\* Grid::next_generation
next_generation(L, w, h, wr) ==
    LET counts == neighbor_counts(L, w, h, wr)
    IN  {pos \in DOMAIN counts : Rule(counts[pos], pos \in L)}

(***************************************************************************)
(* game.rs                                                                 *)
(***************************************************************************)
\* add_cell without its bounds test
add_cell_unchecked(L, w, h, wr, x, y) ==
    L \cup {IF wr THEN wrap(w, h, x, y) ELSE <<x, y>>}

\* add_cell that removes a cell it finds live
add_cell_flips(L, w, h, wr, x, y) ==
    LET p == IF wr THEN wrap(w, h, x, y) ELSE <<x, y>>
    IN  IF ~(wr \/ in_bounds(w, h, p[1], p[2])) THEN L
        ELSE IF p \in L THEN L \ {p} ELSE L \cup {p}

add_cell(L, w, h, wr, x, y) ==
    LET p == IF wr THEN wrap(w, h, x, y) ELSE <<x, y>>
    IN  IF wr \/ in_bounds(w, h, p[1], p[2]) THEN L \cup {p} ELSE L

\* toggle_cell that only ever inserts
toggle_cell_inserts(L, w, h, wr, x, y) ==
    LET p == IF wr THEN wrap(w, h, x, y) ELSE <<x, y>>
    IN  IF wr \/ in_bounds(w, h, p[1], p[2]) THEN L \cup {p} ELSE L

toggle_cell(L, w, h, wr, x, y) ==
    LET p == IF wr THEN wrap(w, h, x, y) ELSE <<x, y>>
    IN  IF ~(wr \/ in_bounds(w, h, p[1], p[2])) THEN L
        ELSE IF p \in L THEN L \ {p} ELSE L \cup {p}

\* random_fill: hits are the cells whose draw gen_range(0.0, 1.0) < density succeeded
RECURSIVE random_fill(_, _, _, _, _)
random_fill(L, w, h, wr, hits) ==
    IF hits = {} THEN L
    ELSE LET c == CHOOSE c \in hits : TRUE
         IN  random_fill(add_cell(L, w, h, wr, c[1], c[2]), w, h, wr, hits \ {c})

(***************************************************************************)
(* patterns.rs                                                             *)
(***************************************************************************)
\* add_cell_to_pattern that removes a cell it finds live
add_cell_to_pattern_flips(cells, grid_width, grid_height, wr, x, y) ==
    LET nx == i32_rem(x, grid_width)
        ny == i32_rem(y, grid_height)
        p  == IF wr THEN << IF nx < 0 THEN nx + grid_width ELSE nx,
                            IF ny < 0 THEN ny + grid_height ELSE ny >>
                    ELSE <<x, y>>
    IN  IF wr \/ ((0 <= x /\ x < grid_width) /\ (0 <= y /\ y < grid_height))
            THEN (IF p \in cells THEN cells \ {p} ELSE cells \cup {p})
            ELSE cells

\* Pattern::add_cell_to_pattern
add_cell_to_pattern(cells, grid_width, grid_height, wr, x, y) ==
    LET nx == i32_rem(x, grid_width)
        ny == i32_rem(y, grid_height)
        p  == IF wr THEN << IF nx < 0 THEN nx + grid_width ELSE nx,
                            IF ny < 0 THEN ny + grid_height ELSE ny >>
                    ELSE <<x, y>>
    IN  IF wr \/ ((0 <= x /\ x < grid_width) /\ (0 <= y /\ y < grid_height))
            THEN cells \cup {p}
            ELSE cells

\* the offsets each apply() iterates, in the order of its loop
GliderPattern == << <<1,0>>, <<2,1>>, <<0,2>>, <<1,2>>, <<2,2>> >>

BlockPattern == << <<0,0>>, <<0,1>>, <<1,0>>, <<1,1>> >>

BlinkerPattern == << <<0,0>>, <<1,0>>, <<2,0>> >>

BeaconPattern == << <<0,0>>, <<1,0>>, <<0,1>>, <<2,3>>, <<3,2>>, <<3,3>> >>

RPentominoPattern == << <<1,0>>, <<2,0>>, <<0,1>>, <<1,1>>, <<1,2>> >>

AcornPattern == << <<1,0>>, <<3,1>>, <<0,2>>, <<1,2>>, <<4,2>>, <<5,2>>, <<6,2>> >>

DiehardPattern == << <<6,0>>, <<0,1>>, <<1,1>>, <<1,2>>, <<5,2>>, <<6,2>>, <<7,2>> >>

GosperGunPattern ==
    << <<24,0>>, <<22,1>>, <<24,1>>, <<12,2>>, <<13,2>>, <<20,2>>, <<21,2>>, <<34,2>>, <<35,2>>,
       <<11,3>>, <<15,3>>, <<20,3>>, <<21,3>>, <<34,3>>, <<35,3>>, <<0,4>>, <<1,4>>, <<10,4>>, <<16,4>>,
       <<20,4>>, <<21,4>>, <<0,5>>, <<1,5>>, <<10,5>>, <<14,5>>, <<16,5>>, <<17,5>>, <<22,5>>, <<24,5>>,
       <<10,6>>, <<16,6>>, <<24,6>>, <<11,7>>, <<15,7>>, <<12,8>>, <<13,8>> >>

PentadecathlonPattern ==
    << <<0,0>>, <<1,0>>, <<2,0>>, <<3,0>>, <<1,-1>>, <<1,1>>, <<4,-1>>, <<4,1>>,
       <<5,0>>, <<6,0>>, <<7,0>>, <<8,0>> >>

\* get_pattern_by_index: the pattern behind a menu index (name() and the offsets of apply())
get_pattern_by_index(index) ==
    CASE index = 0 -> [name |-> "Glider", offsets |-> GliderPattern]
      [] index = 1 -> [name |-> "Random", offsets |-> <<>>]
      [] index = 2 -> [name |-> "Block", offsets |-> BlockPattern]
      [] index = 3 -> [name |-> "Blinker", offsets |-> BlinkerPattern]
      [] index = 4 -> [name |-> "Beacon", offsets |-> BeaconPattern]
      [] index = 5 -> [name |-> "R-pentomino", offsets |-> RPentominoPattern]
      [] index = 6 -> [name |-> "Acorn", offsets |-> AcornPattern]
      [] index = 7 -> [name |-> "Diehard", offsets |-> DiehardPattern]
      [] index = 8 -> [name |-> "Gosper Gun", offsets |-> GosperGunPattern]
      [] index = 9 -> [name |-> "Pentadecathlon", offsets |-> PentadecathlonPattern]
      [] OTHER -> [name |-> "Glider", offsets |-> GliderPattern]

\* the name list with Blinker and Beacon exchanged
get_pattern_names_exchanged ==
    << "Glider", "Random", "Block", "Beacon", "Blinker",
       "R-pentomino", "Acorn", "Diehard", "Gosper Gun", "Pentadecathlon" >>

get_pattern_names ==
    << "Glider", "Random", "Block", "Blinker", "Beacon",
       "R-pentomino", "Acorn", "Diehard", "Gosper Gun", "Pentadecathlon" >>

\* the loop of a fixed pattern's apply(): offsets i..Len of the list, stamped at (x, y).
\* x + dx and y + dy are the i32 sums as long as none overflows (see StampOverflows).
RECURSIVE apply_offsets(_, _, _, _, _, _, _, _)
apply_offsets(offsets, i, cells, grid_width, grid_height, wr, x, y) ==
    IF i > Len(offsets) THEN cells
    ELSE apply_offsets(offsets, i + 1,
                       add_cell_to_pattern(cells, grid_width, grid_height, wr,
                                           x + offsets[i][1], y + offsets[i][2]),
                       grid_width, grid_height, wr, x, y)

\* the same loop in a build without overflow checks, for an anchor where a sum overflows
RECURSIVE apply_offsets_wrapping(_, _, _, _, _, _, _, _)
apply_offsets_wrapping(offsets, i, cells, grid_width, grid_height, wr, x, y) ==
    IF i > Len(offsets) THEN cells
    ELSE apply_offsets_wrapping(offsets, i + 1,
                       add_cell_to_pattern(cells, grid_width, grid_height, wr,
                                           i32_add(x, offsets[i][1]), i32_add(y, offsets[i][2])),
                       grid_width, grid_height, wr, x, y)

\* RandomPattern::apply: hits are the cells whose draw succeeded; the anchor is ignored
RECURSIVE random_apply(_, _, _, _, _)
random_apply(cells, grid_width, grid_height, wr, hits) ==
    IF hits = {} THEN cells
    ELSE LET c == CHOOSE c \in hits : TRUE
         IN  random_apply(add_cell_to_pattern(cells, grid_width, grid_height, wr, c[1], c[2]),
                          grid_width, grid_height, wr, hits \ {c})

\* a stamp that gives up on the whole pattern when one of its cells is off a bounded board
apply_pattern_all_or_nothing(pattern, L, w, h, wr, x, y, hits) ==
    IF pattern.name = "Random"
        THEN random_apply(L, w, h, wr, hits)
        ELSE IF wr \/ \A i \in 1..Len(pattern.offsets) :
                        in_bounds(w, h, x + pattern.offsets[i][1], y + pattern.offsets[i][2])
                THEN apply_offsets(pattern.offsets, 1, L, w, h, wr, x, y)
                ELSE L

\* GameOfLife::apply_pattern: dispatch to the pattern's apply()
apply_pattern(pattern, L, w, h, wr, x, y, hits) ==
    IF pattern.name = "Random"
        THEN random_apply(L, w, h, wr, hits)
        ELSE apply_offsets(pattern.offsets, 1, L, w, h, wr, x, y)

FixedPatterns == {0, 2, 3, 4, 5, 6, 7, 8, 9}

(***************************************************************************)
(* main.rs: the standalone program's own Position, NEIGHBOR_OFFSETS and    *)
(* GameOfLife.  Its GameOfLife is the record g with the fields live,       *)
(* width, height, generation and wrap_world.                               *)
(***************************************************************************)
main_NEIGHBOR_OFFSETS ==
    << <<-1, -1>>, <<0, -1>>, <<1, -1>>,
       <<-1,  0>>,            <<1,  0>>,
       <<-1,  1>>, <<0,  1>>, <<1,  1>> >>

\* Position::offset
main_offset(cell, dx, dy) == <<cell[1] + dx, cell[2] + dy>>

\* GameOfLife::new
main_new(w, h) ==
    [live |-> {}, width |-> w, height |-> h, generation |-> 0, wrap_world |-> FALSE]

main_in_bounds(g, x, y) == (0 <= x /\ x < g.width) /\ (0 <= y /\ y < g.height)

main_wrap(g, x, y) ==
    LET nx == i32_rem(x, g.width)
        ny == i32_rem(y, g.height)
    IN  << IF nx < 0 THEN nx + g.width ELSE nx,
           IF ny < 0 THEN ny + g.height ELSE ny >>

\* main.rs add_cell turned into toggle_cell
main_add_cell_flips(g, x, y) ==
    LET p == IF g.wrap_world THEN main_wrap(g, x, y) ELSE <<x, y>>
    IN  IF ~(g.wrap_world \/ main_in_bounds(g, p[1], p[2])) THEN g
        ELSE IF p \in g.live THEN [g EXCEPT !.live = @ \ {p}]
                               ELSE [g EXCEPT !.live = @ \cup {p}]

main_add_cell(g, x, y) ==
    LET p == IF g.wrap_world THEN main_wrap(g, x, y) ELSE <<x, y>>
    IN  IF g.wrap_world \/ main_in_bounds(g, p[1], p[2])
            THEN [g EXCEPT !.live = @ \cup {p}]
            ELSE g

\* if !self.live.remove(&p) { self.live.insert(p); }
main_toggle_cell(g, x, y) ==
    LET p == IF g.wrap_world THEN main_wrap(g, x, y) ELSE <<x, y>>
    IN  IF ~(g.wrap_world \/ main_in_bounds(g, p[1], p[2])) THEN g
        ELSE IF p \in g.live THEN [g EXCEPT !.live = @ \ {p}]
                               ELSE [g EXCEPT !.live = @ \cup {p}]

main_clear(g) == [g EXCEPT !.live = {}, !.generation = 0]

\* game.wrap_world = !game.wrap_world
main_toggle_wrap(g) == [g EXCEPT !.wrap_world = ~@]

\* main.rs next_generation: the passes <<cell, i>> that increment counts, the
\* map when both loops are done, the set built from it, the counter
main_next_generation(g) ==
    LET p(ci) == IF g.wrap_world
                     THEN main_wrap(g, ci[1][1] + main_NEIGHBOR_OFFSETS[ci[2]][1],
                                       ci[1][2] + main_NEIGHBOR_OFFSETS[ci[2]][2])
                     ELSE main_offset(ci[1], main_NEIGHBOR_OFFSETS[ci[2]][1],
                                             main_NEIGHBOR_OFFSETS[ci[2]][2])
        incs == {ci \in g.live \X (1..Len(main_NEIGHBOR_OFFSETS)) :
                    g.wrap_world \/ main_in_bounds(g, p(ci)[1], p(ci)[2])}
        counts == [q \in {p(ci) : ci \in incs} |-> Cardinality({ci \in incs : p(ci) = q})]
        next == {pos \in DOMAIN counts :
                    counts[pos] = 3 \/ (pos \in g.live /\ counts[pos] = 2)}
    IN  [g EXCEPT !.live = next, !.generation = @ + 1]

(***************************************************************************)
(* The session: one GameOfLife driven by the calls of ui.rs run_simulation *)
(***************************************************************************)
\* GameOfLife::new on a board of the given size
New(w, h) ==
    /\ width = w
    /\ height = h
    /\ wrap_world = FALSE
    /\ live = {}
    /\ generation = 0
    /\ lastOp = "new"
    /\ advances = 0
    /\ live0 = {}
    /\ arg = <<>>
    /\ main_game = <<>>

Init == \E b \in Boards(SessCells) : New(b[1], b[2])

AddCell(x, y) ==
    /\ live' = add_cell(live, width, height, wrap_world, x, y)
    /\ lastOp' = "add_cell"
    /\ UNCHANGED <<width, height, wrap_world, generation, advances, live0, arg, main_game>>

ToggleCell(x, y) ==
    /\ live' = toggle_cell(live, width, height, wrap_world, x, y)
    /\ lastOp' = "toggle_cell"
    /\ UNCHANGED <<width, height, wrap_world, generation, advances, live0, arg, main_game>>

\* clear that empties the set and keeps the counter
ClearKeepsGeneration ==
    /\ live' = {}
    /\ advances' = 0
    /\ lastOp' = "clear"
    /\ UNCHANGED <<width, height, wrap_world, generation, live0, arg, main_game>>

Clear ==
    /\ live' = {}
    /\ generation' = 0
    /\ advances' = 0
    /\ lastOp' = "clear"
    /\ UNCHANGED <<width, height, wrap_world, live0, arg, main_game>>

RandomFill(hits) ==
    /\ live' = random_fill(live, width, height, wrap_world, hits)
    /\ lastOp' = "random_fill"
    /\ UNCHANGED <<width, height, wrap_world, generation, advances, live0, arg, main_game>>

\* next_generation that replaces the set and forgets the counter
NextGenerationNoCount ==
    /\ live' = next_generation(live, width, height, wrap_world)
    /\ advances' = advances + 1
    /\ lastOp' = "next_generation"
    /\ UNCHANGED <<width, height, wrap_world, generation, live0, arg, main_game>>

NextGeneration ==
    /\ live' = next_generation(live, width, height, wrap_world)
    /\ generation' = generation + 1
    /\ advances' = advances + 1
    /\ lastOp' = "next_generation"
    /\ UNCHANGED <<width, height, wrap_world, live0, arg, main_game>>

ApplyPattern(index, x, y, hits) ==
    /\ live' = apply_pattern(get_pattern_by_index(index), live, width, height, wrap_world,
                             x, y, hits)
    /\ lastOp' = "apply_pattern"
    /\ UNCHANGED <<width, height, wrap_world, generation, advances, live0, arg, main_game>>

\* a mode change that also starts the session over
SetWrapRestarts ==
    /\ wrap_world' = ~wrap_world
    /\ live' = {}
    /\ generation' = 0
    /\ advances' = 0
    /\ lastOp' = "set_wrap"
    /\ UNCHANGED <<width, height, live0, arg, main_game>>

\* ui.rs: game.grid.wrap_world = !game.grid.wrap_world
SetWrap ==
    /\ wrap_world' = ~wrap_world
    /\ lastOp' = "set_wrap"
    /\ UNCHANGED <<width, height, live, generation, advances, live0, arg, main_game>>

Next ==
    \/ \E c \in Coords(width, height) : AddCell(c[1], c[2])
    \/ \E c \in Coords(width, height) : ToggleCell(c[1], c[2])
    \/ Clear
    \/ \E hits \in SUBSET Cells(width, height) : RandomFill(hits)
    \/ generation < MaxGen /\ NextGeneration
    \/ \E i \in FixedPatterns : \E c \in Coords(width, height) : ApplyPattern(i, c[1], c[2], {})
    \/ \E hits \in SUBSET Cells(width, height) : ApplyPattern(1, 0, 0, hits)
    \/ SetWrap

Spec == Init /\ [][Next]_vars

(***************************************************************************)
(* Advance as a function: every board up to MaxCells cells, both wrap      *)
(* modes, every canonical live set, advanced by next_generation.           *)
(***************************************************************************)
\* a session brought to live set L by toggles, the wrap flag set by the W key
Placed(w, h, wr, L) ==
    /\ width = w
    /\ height = h
    /\ wrap_world = wr
    /\ live = L
    /\ generation = 0
    /\ lastOp = IF L # {} THEN "toggle_cell" ELSE IF wr THEN "set_wrap" ELSE "new"
    /\ advances = 0
    /\ live0 = L
    /\ arg = <<>>
    /\ main_game = <<>>

InitAdvance ==
    \E b \in Boards(MaxCells) : \E wr \in BOOLEAN :
        \E L \in SUBSET Cells(b[1], b[2]) : Placed(b[1], b[2], wr, L)

NextAdvance == generation < MaxGen /\ NextGeneration

SpecAdvance == InitAdvance /\ [][NextAdvance]_vars

(***************************************************************************)
(* Stamp then advance: a pattern stamped once on an empty board, then      *)
(* advanced.  live0 keeps the stamped set.                                 *)
(***************************************************************************)
\* GameOfLife::apply_pattern on the empty board of a fresh session
Stamp(index, x, y) ==
    /\ generation = 0
    /\ lastOp \in {"new", "set_wrap"}
    /\ live' = apply_pattern(get_pattern_by_index(index), live, width, height, wrap_world,
                             x, y, {})
    /\ live0' = live'
    /\ lastOp' = "apply_pattern"
    /\ UNCHANGED <<width, height, wrap_world, generation, advances, arg, main_game>>

Advance(gens) ==
    /\ lastOp \in {"apply_pattern", "next_generation"}
    /\ generation < gens
    /\ NextGeneration

StampPatterns == {2, 3}

InitStamp ==
    \E b \in Boards(StampCells) : \E wr \in BOOLEAN : Placed(b[1], b[2], wr, {})

NextStamp ==
    \/ \E i \in StampPatterns : \E c \in Coords(width, height) : Stamp(i, c[1], c[2])
    \/ Advance(StampGens)

SpecStamp == InitStamp /\ [][NextStamp]_vars

(***************************************************************************)
(* Long runs: Glider and Diehard on the 10 x 10 board and on a large       *)
(* bounded board.                                                          *)
(***************************************************************************)
RunPatterns == {0, 7}

RunAnchors == {<<0, 0>>} \cup {<<7 + i, 5 + j>> : i \in 0..AnchorSpan, j \in 0..AnchorSpan}

InitRun == \E b \in {<<10, 10>>, <<RunW, RunH>>} : Placed(b[1], b[2], FALSE, {})

NextRun ==
    \/ \E i \in RunPatterns : \E c \in RunAnchors : Stamp(i, c[1], c[2])
    \/ Advance(RunGens)

SpecRun == InitRun /\ [][NextRun]_vars

(***************************************************************************)
(* Calls with drawn arguments: the initial state draws the board, the wrap *)
(* flag, the live set and the arguments in arg; the actions make the call  *)
(* with those arguments.                                                   *)
(***************************************************************************)
\* a session brought to live set L by toggles, about to be called with arguments a
Called(w, h, wr, L, a) ==
    /\ width = w
    /\ height = h
    /\ wrap_world = wr
    /\ live = L
    /\ generation = 0
    /\ lastOp = IF L # {} THEN "toggle_cell" ELSE IF wr THEN "set_wrap" ELSE "new"
    /\ advances = 0
    /\ live0 = L
    /\ arg = a
    /\ main_game = <<>>

(***************************************************************************)
(* One stamp: every fixed pattern at every anchor of Coords on an empty    *)
(* board of up to PlaceCells cells, both wrap modes.                       *)
(***************************************************************************)
InitPlace ==
    \E b \in Boards(PlaceCells) : \E wr \in BOOLEAN :
        \E i \in FixedPatterns : \E c \in Coords(b[1], b[2]) :
            Called(b[1], b[2], wr, {}, <<i, c[1], c[2]>>)

NextPlace == Stamp(arg[1], arg[2], arg[3])

SpecPlace == InitPlace /\ [][NextPlace]_vars

(***************************************************************************)
(* Insert and toggle: every board of up to EditCells cells, both wrap      *)
(* modes, every live set, one coordinate of WideCoords; add_cell and       *)
(* toggle_cell are called with that coordinate, any number of times.       *)
(***************************************************************************)
InitEdit ==
    \E b \in Boards(EditCells) : \E wr \in BOOLEAN :
        \E L \in SUBSET Cells(b[1], b[2]) : \E c \in WideCoords(b[1], b[2]) :
            Called(b[1], b[2], wr, L, c)

NextEdit ==
    \/ AddCell(arg[1], arg[2])
    \/ ToggleCell(arg[1], arg[2])

SpecEdit == InitEdit /\ [][NextEdit]_vars

(***************************************************************************)
(* Construction: GameOfLife::new with any width and height of -1..MaxDim,  *)
(* then the W key, toggles and advances.  A remainder by zero panics and   *)
(* ends the program.                                                       *)
(***************************************************************************)
\* grid.rs wrap: x % self.width or y % self.height with a zero divisor
RemByZero == wrap_world /\ (width = 0 \/ height = 0)

\* the panic "attempt to calculate the remainder with a divisor of zero", or, in
\* a debug build, "attempt to add with overflow"
Panics ==
    /\ lastOp' = "panic"
    /\ UNCHANGED <<width, height, wrap_world, live, generation, advances, live0, arg, main_game>>

InitNew == \E w \in (0 - 1)..MaxDim : \E h \in (0 - 1)..MaxDim : New(w, h)

\* the program has not panicked
Running == lastOp # "panic"

NextNew ==
    \/ Running /\ SetWrap
    \/ Running /\ ~RemByZero /\ \E c \in Coords(width, height) : ToggleCell(c[1], c[2])
    \/ Running /\ RemByZero /\ Panics
    \/ Running /\ generation < MaxGen /\ NextGeneration

SpecNew == InitNew /\ [][NextNew]_vars

(***************************************************************************)
(* Stamps near the i32 limit: every fixed pattern stamped once on an empty *)
(* board with an anchor coordinate within NearMax of I32_MAX.  x+dx and    *)
(* y+dy are i32 additions: where one overflows, a build with overflow      *)
(* checks panics and a build without them goes on with the wrapped sum.    *)
(* Both builds come from the same source, so both outcomes are steps.      *)
(***************************************************************************)
\* some x+dx or y+dy of the pattern's apply() overflows
StampOverflows(index, x, y) ==
    LET offsets == get_pattern_by_index(index).offsets
    IN  \E i \in 1..Len(offsets) :
            i32_add_overflows(x, offsets[i][1]) \/ i32_add_overflows(y, offsets[i][2])

NearMaxAnchors ==
    {I32_MAX - k : k \in 0..NearMax} \X ({0} \cup {I32_MAX - k : k \in 0..NearMax})

InitOverflow ==
    \E b \in Boards(PlaceCells) : \E wr \in BOOLEAN :
        \E i \in FixedPatterns : \E c \in NearMaxAnchors :
            Called(b[1], b[2], wr, {}, <<i, c[1], c[2]>>)

\* apply_pattern of a fixed pattern, a sum overflowing, in a build without overflow checks
StampWrapping(index, x, y) ==
    /\ generation = 0
    /\ lastOp \in {"new", "set_wrap"}
    /\ StampOverflows(index, x, y)
    /\ live' = apply_offsets_wrapping(get_pattern_by_index(index).offsets, 1, live,
                                      width, height, wrap_world, x, y)
    /\ live0' = live'
    /\ lastOp' = "apply_pattern"
    /\ UNCHANGED <<width, height, wrap_world, generation, advances, arg, main_game>>

\* apply_pattern of a fixed pattern, a sum overflowing, in a build with overflow checks
StampPanics(index, x, y) ==
    /\ generation = 0
    /\ lastOp \in {"new", "set_wrap"}
    /\ StampOverflows(index, x, y)
    /\ Panics

NextOverflow ==
    \/ ~StampOverflows(arg[1], arg[2], arg[3]) /\ Stamp(arg[1], arg[2], arg[3])
    \/ StampWrapping(arg[1], arg[2], arg[3])
    \/ StampPanics(arg[1], arg[2], arg[3])

SpecOverflow == InitOverflow /\ [][NextOverflow]_vars

(***************************************************************************)
(* Oscillators: Beacon and Pentadecathlon stamped once at an interior      *)
(* anchor of the empty bounded OscW x OscH board, then advanced.           *)
(***************************************************************************)
OscPatterns == {4, 9}

OscAnchors == {<<9 + i, 9 + j>> : i \in 0..AnchorSpan, j \in 0..AnchorSpan}

InitOsc == Placed(OscW, OscH, FALSE, {})

NextOsc ==
    \/ \E i \in OscPatterns : \E c \in OscAnchors : Stamp(i, c[1], c[2])
    \/ Advance(OscGens)

SpecOsc == InitOsc /\ [][NextOsc]_vars

(***************************************************************************)
(* Split counting: every board of up to SplitCells cells, both wrap modes, *)
(* every live set and every split of it into three disjoint parts          *)
(* arg[1], arg[2] and the rest; the board is advanced once.                *)
(***************************************************************************)
InitSplit ==
    \E b \in Boards(SplitCells) : \E wr \in BOOLEAN :
        \E L \in SUBSET Cells(b[1], b[2]) :
            \E A \in SUBSET L : \E B \in SUBSET (L \ A) :
                Called(b[1], b[2], wr, L, <<A, B>>)

NextSplit == generation < 1 /\ NextGeneration

SpecSplit == InitSplit /\ [][NextSplit]_vars

(***************************************************************************)
(* Two engines: the GameOfLife of game.rs and grid.rs and the GameOfLife   *)
(* of main.rs, built with the same dimensions and given the same calls.    *)
(***************************************************************************)
InitTwin ==
    \E b \in Boards(TwinCells) :
        /\ width = b[1]
        /\ height = b[2]
        /\ wrap_world = FALSE
        /\ live = {}
        /\ generation = 0
        /\ lastOp = "new"
        /\ advances = 0
        /\ live0 = {}
        /\ arg = <<>>
        /\ main_game = main_new(b[1], b[2])

TwinAddCell(x, y) ==
    /\ live' = add_cell(live, width, height, wrap_world, x, y)
    /\ main_game' = main_add_cell(main_game, x, y)
    /\ lastOp' = "add_cell"
    /\ UNCHANGED <<width, height, wrap_world, generation, advances, live0, arg>>

TwinToggleCell(x, y) ==
    /\ live' = toggle_cell(live, width, height, wrap_world, x, y)
    /\ main_game' = main_toggle_cell(main_game, x, y)
    /\ lastOp' = "toggle_cell"
    /\ UNCHANGED <<width, height, wrap_world, generation, advances, live0, arg>>

TwinClear ==
    /\ live' = {}
    /\ generation' = 0
    /\ advances' = 0
    /\ main_game' = main_clear(main_game)
    /\ lastOp' = "clear"
    /\ UNCHANGED <<width, height, wrap_world, live0, arg>>

\* the W key of both programs
TwinSetWrap ==
    /\ wrap_world' = ~wrap_world
    /\ main_game' = main_toggle_wrap(main_game)
    /\ lastOp' = "set_wrap"
    /\ UNCHANGED <<width, height, live, generation, advances, live0, arg>>

TwinNextGeneration ==
    /\ live' = next_generation(live, width, height, wrap_world)
    /\ generation' = generation + 1
    /\ advances' = advances + 1
    /\ main_game' = main_next_generation(main_game)
    /\ lastOp' = "next_generation"
    /\ UNCHANGED <<width, height, wrap_world, live0, arg>>

NextTwin ==
    \/ \E c \in Coords(width, height) : TwinAddCell(c[1], c[2])
    \/ \E c \in Coords(width, height) : TwinToggleCell(c[1], c[2])
    \/ TwinClear
    \/ TwinSetWrap
    \/ generation < MaxGen /\ TwinNextGeneration

SpecTwin == InitTwin /\ [][NextTwin]_vars

(***************************************************************************)
(* Stamps on any live set: every board of up to GrowCells cells, both wrap *)
(* modes, every live set; arg = <<index, x, y, hits>> is a fixed pattern   *)
(* and an anchor of Coords, or Random and the cells its draws hit.         *)
(* One of apply_pattern, add_cell(x, y) and random_fill(hits) is called    *)
(* on the drawn live set.                                                  *)
(***************************************************************************)
GrowArgs(w, h) ==
    {<<i, c[1], c[2], {}>> : i \in FixedPatterns, c \in Coords(w, h)}
        \cup {<<1, 0, 0, hits>> : hits \in SUBSET Cells(w, h)}

InitGrow ==
    \E b \in Boards(GrowCells) : \E wr \in BOOLEAN :
        \E L \in SUBSET Cells(b[1], b[2]) : \E a \in GrowArgs(b[1], b[2]) :
            Called(b[1], b[2], wr, L, a)

NextGrow ==
    \/ lastOp \in {"new", "set_wrap", "toggle_cell"} /\ ApplyPattern(arg[1], arg[2], arg[3], arg[4])
    \/ lastOp \in {"new", "set_wrap", "toggle_cell"} /\ AddCell(arg[2], arg[3])
    \/ lastOp \in {"new", "set_wrap", "toggle_cell"} /\ RandomFill(arg[4])

SpecGrow == InitGrow /\ [][NextGrow]_vars

(***************************************************************************)
(* Properties                                                              *)
(***************************************************************************)
\* the live cells among the 8 positions adjacent to c
ConwayNeighbours(L, c) ==
    Cardinality({q \in L : q # c /\ (q[1] - c[1]) \in -1..1 /\ (q[2] - c[2]) \in -1..1})

\* the standard rule on a finite rectangle, cells off the board dead
ConwayBounded(L, w, h) ==
    {c \in Cells(w, h) :
        LET n == ConwayNeighbours(L, c) IN n = 3 \/ (n = 2 /\ c \in L)}

\* C1: on a bounded board one advance of an in-bounds live set gives exactly the
\* in-bounds cells with 3 live neighbours, or with 2 and live themselves.
C1_BoundedAdvanceIsConway ==
    (~wrap_world /\ generation = 1) => live = ConwayBounded(live0, width, height)

C1_Witness ==
    /\ ~wrap_world /\ width = 3 /\ height = 3 /\ generation = 1
    /\ live0 = {<<0, 0>>, <<1, 0>>, <<0, 1>>}
    /\ live = {<<0, 0>>, <<1, 0>>, <<0, 1>>, <<1, 1>>}

\* C2: every live cell lies in [0, width) x [0, height), in every state of a session.
C2_LiveInBounds ==
    \A p \in live : (0 <= p[1] /\ p[1] < width) /\ (0 <= p[2] /\ p[2] < height)

C2_Witness ==
    /\ lastOp = "set_wrap" /\ ~wrap_world /\ generation > 0
    /\ live = Cells(width, height) /\ width = 2 /\ height = 2

\* the pairs (live cell p, offset o) whose floor-modulo image is c
TorusCount(L, w, h, c) ==
    Cardinality({po \in L \X (((-1)..1) \X ((-1)..1)) :
        /\ po[2] # <<0, 0>>
        /\ <<(po[1][1] + po[2][1]) % w, (po[1][2] + po[2][2]) % h>> = c})

TorusAdvance(L, w, h) ==
    {c \in Cells(w, h) :
        LET n == TorusCount(L, w, h, c) IN n = 3 \/ (n = 2 /\ c \in L)}

\* C3: in wrap mode one advance of a canonical live set gives exactly the cells c
\* with n(c) = 3, or n(c) = 2 and c live, n(c) counting pairs with multiplicity.
C3_WrapAdvanceCountsPairs ==
    (wrap_world /\ generation = 1) => live = TorusAdvance(live0, width, height)

\* a lone cell on the 2 x 1 torus is its own neighbour twice and survives
C3_Witness ==
    /\ wrap_world /\ width = 2 /\ height = 1 /\ generation = 1
    /\ live0 = {<<0, 0>>} /\ live = {<<0, 0>>}

\* C4: the generation counter equals the number of next_generation calls since
\* construction or the last clear.
C4_GenerationCountsAdvances == generation = advances

C4_Witness == generation = MaxGen /\ lastOp = "toggle_cell" /\ live # {}

\* C5: a clear step leaves the live set empty and the counter zero together, and
\* changes neither the dimensions nor the wrap flag.
C5_ClearResetsBoth ==
    [][lastOp' = "clear" =>
          /\ live' = {} /\ generation' = 0
          /\ width' = width /\ height' = height /\ wrap_world' = wrap_world]_vars

C5_Witness == lastOp = "clear" /\ wrap_world /\ live = {} /\ generation = 0

\* C6: Glider stamped at (0,0) on the empty bounded 10 x 10 board is, four
\* advances later, the same shape moved by (1,1).
C6_GliderMovesDiagonally ==
    (/\ width = 10 /\ height = 10 /\ ~wrap_world
     /\ live0 = {<<1, 0>>, <<2, 1>>, <<0, 2>>, <<1, 2>>, <<2, 2>>}
     /\ generation = 4)
        => live = {<<2, 1>>, <<3, 2>>, <<1, 3>>, <<2, 3>>, <<3, 3>>}

C6_Witness ==
    /\ width = 10 /\ height = 10 /\ generation = 4
    /\ live0 = {<<1, 0>>, <<2, 1>>, <<0, 2>>, <<1, 2>>, <<2, 2>>}
    /\ Cardinality(live) = 5

DiehardAt(c) ==
    {<<c[1] + DiehardPattern[i][1], c[2] + DiehardPattern[i][2]>> :
        i \in 1..Len(DiehardPattern)}

\* room for the whole run: 6 columns left of the anchor, 11 right, 4 rows above,
\* 18 below, and one free line at every edge
Roomy(c) == c[1] >= 7 /\ c[1] + 13 <= width /\ c[2] >= 5 /\ c[2] + 20 <= height

OnEdge(p) == p[1] = 0 \/ p[1] = width - 1 \/ p[2] = 0 \/ p[2] = height - 1

\* C7: Diehard on a large enough bounded board is non-empty after each of
\* generations 0..129, never touches an edge, and is empty after generation 130.
C7_DiehardDiesAt130 ==
    \A c \in RunAnchors :
        (~wrap_world /\ Roomy(c) /\ live0 = DiehardAt(c)) =>
            /\ generation < 130 => (live # {} /\ \A p \in live : ~OnEdge(p))
            /\ generation >= 130 => live = {}

C7_Witness ==
    /\ width = RunW /\ height = RunH /\ live0 = DiehardAt(<<7, 5>>)
    /\ generation = 130 /\ live = {}

\* C8: the empty live set advances to the empty live set, on every board and in
\* both wrap modes, however many generations pass.
C8_EmptyStaysEmpty == live0 = {} => live = {}

C8_Witness ==
    /\ live0 = {} /\ live = {} /\ wrap_world /\ width = 3 /\ height = 3
    /\ generation = MaxGen

BlockAt(c) == {<<c[1], c[2]>>, <<c[1] + 1, c[2]>>, <<c[1], c[2] + 1>>, <<c[1] + 1, c[2] + 1>>}

InteriorBlock(c) == (0 <= c[1] /\ c[1] + 1 < width) /\ (0 <= c[2] /\ c[2] + 1 < height)

\* C9 as stated: on any topology the Block stamped at an interior anchor is
\* returned unchanged by advance.
C9_BlockFixedAnyTopology ==
    \A c \in Cells(width, height) :
        (InteriorBlock(c) /\ live0 = BlockAt(c) /\ generation >= 1) => live = live0

\* C9 amended: the Block stamped at an interior anchor is a fixed point of advance
\* on a bounded board, and on a torus whose width and height are both at least 3.
C9_BlockFixedPoint ==
    \A c \in Cells(width, height) :
        (/\ InteriorBlock(c) /\ live0 = BlockAt(c) /\ generation >= 1
         /\ (~wrap_world \/ (width >= 3 /\ height >= 3)))
            => live = live0

C9_Witness ==
    /\ wrap_world /\ width = 3 /\ height = 3 /\ live0 = BlockAt(<<1, 1>>)
    /\ generation = StampGens /\ live = live0

BlinkerAt(c) == {<<c[1], c[2]>>, <<c[1] + 1, c[2]>>, <<c[1] + 2, c[2]>>}

BlinkerUpright(c) == {<<c[1] + 1, c[2] - 1>>, <<c[1] + 1, c[2]>>, <<c[1] + 1, c[2] + 1>>}

\* the three stamped cells lie at least one cell from every edge
BlinkerAwayFromEdges(c) ==
    (1 <= c[1] /\ c[1] + 2 <= width - 2) /\ (1 <= c[2] /\ c[2] <= height - 2)

\* C10: on a bounded board the horizontal Blinker stamped away from the edges is
\* the vertical 3-cell set after one advance and the stamped set again after two.
C10_BlinkerPeriodTwo ==
    \A c \in Cells(width, height) :
        (~wrap_world /\ BlinkerAwayFromEdges(c) /\ live0 = BlinkerAt(c)) =>
            /\ generation % 2 = 1 => (live = BlinkerUpright(c) /\ live # live0)
            /\ generation % 2 = 0 => live = live0

C10_Witness ==
    /\ ~wrap_world /\ width = 5 /\ height = 3 /\ live0 = BlinkerAt(<<1, 1>>)
    /\ generation = 2 /\ live = live0

\* the coordinates anchor + offset of the pattern behind a menu index
StampedAt(index, x, y) ==
    LET offsets == get_pattern_by_index(index).offsets
    IN  {<<x + offsets[i][1], y + offsets[i][2]>> : i \in 1..Len(offsets)}

\* C11: a fixed pattern stamped on an empty board leaves, on a bounded board,
\* exactly the anchor + offset coordinates that lie on the board and, on a
\* wrapping board, exactly the images modulo (width, height) of all of them.
C11_StampAdmitsCellByCell ==
    lastOp = "apply_pattern" =>
        LET raw == StampedAt(arg[1], arg[2], arg[3])
        IN  live = IF wrap_world
                       THEN {<<r[1] % width, r[2] % height>> : r \in raw}
                       ELSE raw \cap Cells(width, height)

\* a Glider anchored at (1, 1) of the bounded 3 x 3 board keeps its one cell on the board
C11_Witness ==
    /\ lastOp = "apply_pattern" /\ ~wrap_world /\ width = 3 /\ height = 3
    /\ arg = <<0, 1, 1>> /\ live = {<<2, 1>>}

\* C12: in wrap mode the canonical form of any coordinate, negative or not, is
\* a cell of the board, is congruent to the coordinate modulo (width, height),
\* and is its own canonical form; a cell of the board is already canonical.
C12_WrapTotalIdempotent ==
    LET p == wrap(width, height, arg[1], arg[2])
    IN  /\ p \in Cells(width, height)
        /\ (p[1] - arg[1]) % width = 0
        /\ (p[2] - arg[2]) % height = 0
        /\ wrap(width, height, p[1], p[2]) = p
        /\ arg \in Cells(width, height) => p = arg

\* on the 2 x 2 torus, inserting (-3, 4) makes (1, 0) live
C12_Witness ==
    /\ wrap_world /\ lastOp = "add_cell" /\ width = 2 /\ height = 2
    /\ arg = <<-3, 4>> /\ live0 = {} /\ live = {<<1, 0>>}

\* the coordinate of arg is admitted: any coordinate in wrap mode, a cell of the board otherwise
ArgAdmitted == wrap_world \/ arg \in Cells(width, height)

\* the cell the coordinate of arg stands for once admitted
ArgCell == IF wrap_world THEN <<arg[1] % width, arg[2] % height>> ELSE arg

\* C13: after a toggle, the same toggle once more restores the live set the
\* first one started from; a toggle of an admitted coordinate changes the
\* membership of its one canonical cell and of no other.
C13_ToggleTwiceIsIdentity ==
    [][ToggleCell(arg[1], arg[2]) =>
          /\ toggle_cell(live', width, height, wrap_world, arg[1], arg[2]) = live
          /\ ArgAdmitted => (live' \ live) \cup (live \ live') = {ArgCell}
          /\ ~ArgAdmitted => live' = live]_vars

\* on the 2 x 2 torus holding (0, 0), one toggle of (-1, 3) has added (1, 1)
C13_Witness ==
    /\ wrap_world /\ lastOp = "toggle_cell" /\ width = 2 /\ height = 2
    /\ arg = <<-1, 3>> /\ live0 = {<<0, 0>>} /\ live = {<<0, 0>>, <<1, 1>>}

\* C14: on a bounded board, add_cell and toggle_cell with a coordinate off
\* the board change neither the live set, nor the generation, nor the wrap flag.
C14_OutOfBoundsIsNoOp ==
    [][(/\ ~wrap_world
        /\ arg \notin Cells(width, height)
        /\ (AddCell(arg[1], arg[2]) \/ ToggleCell(arg[1], arg[2])))
          => (live' = live /\ generation' = generation /\ wrap_world' = wrap_world)]_vars

\* the bounded 2 x 2 board holding (0, 0) after add_cell(-1, 0)
C14_Witness ==
    /\ ~wrap_world /\ lastOp = "add_cell" /\ width = 2 /\ height = 2
    /\ arg = <<-1, 0>> /\ live0 = {<<0, 0>>} /\ live = live0 /\ generation = 0

\* C18: add_cell of a coordinate whose admitted cell is already live leaves
\* the live set as it is, and add_cell once more after add_cell changes nothing.
C18_InsertIdempotent ==
    [][AddCell(arg[1], arg[2]) =>
          /\ add_cell(live', width, height, wrap_world, arg[1], arg[2]) = live'
          /\ (ArgAdmitted /\ ArgCell \in live) => live' = live]_vars

\* on the 2 x 2 torus holding (0, 1), add_cell(2, -1) names the live cell (0, 1)
C18_Witness ==
    /\ wrap_world /\ lastOp = "add_cell" /\ width = 2 /\ height = 2
    /\ arg = <<2, -1>> /\ live0 = {<<0, 1>>} /\ live = {<<0, 1>>}

\* C17: a step that toggles wrap_world inverts the flag and leaves the live
\* set, the generation counter and the board dimensions as they were.
C17_SetWrapChangesOnlyFlag ==
    [][lastOp' = "set_wrap" =>
          /\ wrap_world' = ~wrap_world
          /\ live' = live
          /\ generation' = generation
          /\ width' = width /\ height' = height]_vars

\* the flag switched on over a board that holds cells and has been advanced
C17_Witness ==
    /\ lastOp = "set_wrap" /\ wrap_world /\ live # {} /\ generation > 0

\* C19: for every index 0..9 the pattern of get_pattern_by_index carries the
\* name get_pattern_names lists at that index; there are exactly 10 names, in
\* the order Glider, Random, Block, Blinker, Beacon, R-pentomino, Acorn,
\* Diehard, Gosper Gun, Pentadecathlon.
C19_RegistryConsistent ==
    /\ Len(get_pattern_names) = 10
    /\ \A i \in 0..9 : get_pattern_by_index(i).name = get_pattern_names[i + 1]
    /\ get_pattern_names[1] = "Glider" /\ get_pattern_names[2] = "Random"
    /\ get_pattern_names[3] = "Block" /\ get_pattern_names[4] = "Blinker"
    /\ get_pattern_names[5] = "Beacon" /\ get_pattern_names[6] = "R-pentomino"
    /\ get_pattern_names[7] = "Acorn" /\ get_pattern_names[8] = "Diehard"
    /\ get_pattern_names[9] = "Gosper Gun" /\ get_pattern_names[10] = "Pentadecathlon"
    /\ lastOp = "apply_pattern" =>
           get_pattern_by_index(arg[1]).name = get_pattern_names[arg[1] + 1]

\* index 9, listed as Pentadecathlon, stamped at (0, 0) of the 12 x 1 torus
C19_Witness ==
    /\ lastOp = "apply_pattern" /\ wrap_world /\ width = 12 /\ height = 1
    /\ arg = <<9, 0, 0>> /\ get_pattern_names[arg[1] + 1] = "Pentadecathlon"
    /\ live = {<<x, 0>> : x \in 0..8}

\* C15: no session has a width or height that is zero or negative, and no
\* operation of a session ends in a panic.
C15_DegenerateBoardRejected ==
    /\ width > 0 /\ height > 0
    /\ lastOp # "panic"

\* C16: a stamp never panics, and an anchor + offset sum outside the i32 range
\* is dropped like an out-of-bounds coordinate in both wrap modes: the live
\* set after the stamp is what the sums that are within the range admit.
C16_OverflowDropped ==
    /\ lastOp # "panic"
    /\ lastOp = "apply_pattern" =>
           LET offsets == get_pattern_by_index(arg[1]).offsets
               fits == {i \in 1..Len(offsets) :
                           /\ ~i32_add_overflows(arg[2], offsets[i][1])
                           /\ ~i32_add_overflows(arg[3], offsets[i][2])}
               raw == {<<arg[2] + offsets[i][1], arg[3] + offsets[i][2]>> : i \in fits}
           IN  live = IF wrap_world
                          THEN {<<r[1] % width, r[2] % height>> : r \in raw}
                          ELSE raw \cap Cells(width, height)

\* C20: the Pentadecathlon stamped at an interior anchor of the empty bounded
\* board is back at the stamped set after 15 advances and after no smaller
\* positive number of advances.
C20_PentadecathlonPeriod15 ==
    \A c \in OscAnchors :
        (~wrap_world /\ live0 = StampedAt(9, c[1], c[2]) /\ generation \in 1..15) =>
            (live = live0 <=> generation = 15)

\* the Beacon's other phase: the stamped cells and the two inner corners
BeaconFull(c) ==
    StampedAt(4, c[1], c[2]) \cup {<<c[1] + 1, c[2] + 1>>, <<c[1] + 2, c[2] + 2>>}

\* C21: the Beacon stamped at an interior anchor of the empty bounded board is
\* back at the stamped set after every even number of advances and is a
\* different set, the stamped cells and the two inner corners, after every
\* odd number.
C21_BeaconPeriodTwo ==
    \A c \in OscAnchors :
        (~wrap_world /\ live0 = StampedAt(4, c[1], c[2])) =>
            /\ generation % 2 = 0 => live = live0
            /\ generation % 2 = 1 => (live # live0 /\ live = BeaconFull(c))

\* the Beacon stamped at (9, 9), advanced twice
C21_Witness ==
    /\ ~wrap_world /\ live0 = StampedAt(4, 9, 9) /\ Cardinality(live0) = 6
    /\ generation = 2 /\ lastOp = "next_generation" /\ live = live0

\* two count maps merged by pointwise addition, a missing key counting 0
MergeCounts(f, g) ==
    [p \in DOMAIN f \cup DOMAIN g |->
        (IF p \in DOMAIN f THEN f[p] ELSE 0) + (IF p \in DOMAIN g THEN g[p] ELSE 0)]

\* C22: for every split of the live set into three disjoint parts, the count
\* maps of the parts merged by pointwise addition, in any order and grouping,
\* equal the count map of the single pass over the whole set, and the rule
\* applied to the merged map gives the set the advance produces.
C22_CountingSplits ==
    LET cA == neighbor_counts(arg[1], width, height, wrap_world)
        cB == neighbor_counts(arg[2], width, height, wrap_world)
        cC == neighbor_counts(live0 \ (arg[1] \cup arg[2]), width, height, wrap_world)
        whole == neighbor_counts(live0, width, height, wrap_world)
        merged == MergeCounts(MergeCounts(cA, cB), cC)
    IN  /\ merged = whole
        /\ MergeCounts(cA, MergeCounts(cB, cC)) = whole
        /\ MergeCounts(MergeCounts(cC, cA), cB) = whole
        /\ MergeCounts(cC, MergeCounts(cB, cA)) = whole
        /\ generation = 1 =>
               live = {pos \in DOMAIN merged : Rule(merged[pos], pos \in live0)}

\* three cells of the 2 x 2 torus, one per part, advanced once
C22_Witness ==
    /\ wrap_world /\ width = 2 /\ height = 2
    /\ live0 = {<<0, 0>>, <<1, 0>>, <<0, 1>>}
    /\ arg = <<{<<0, 0>>}, {<<1, 0>>}>>
    /\ generation = 1 /\ lastOp = "next_generation"

\* C23: after every step of the same calls, the engine of main.rs holds the
\* same live set, generation counter and wrap flag as the engine of game.rs
\* and grid.rs.
C23_EnginesAgree ==
    /\ main_game.live = live
    /\ main_game.generation = generation
    /\ main_game.wrap_world = wrap_world
    /\ main_game.width = width /\ main_game.height = height

\* both engines on the 2 x 2 torus after two advances, cells alive
C23_Witness ==
    /\ wrap_world /\ width = 2 /\ height = 2 /\ lastOp = "next_generation"
    /\ generation = 2 /\ live # {} /\ main_game.live = live /\ main_game.generation = 2

\* add_cell called once for each anchor + offset, offsets i..Len in order
RECURSIVE InsertEach(_, _, _, _, _, _, _, _)
InsertEach(offsets, i, L, w, h, wr, x, y) ==
    IF i > Len(offsets) THEN L
    ELSE InsertEach(offsets, i + 1,
                    add_cell(L, w, h, wr, x + offsets[i][1], y + offsets[i][2]),
                    w, h, wr, x, y)

\* C24: apply_pattern, add_cell and random_fill never remove a live cell, and
\* the set after apply_pattern is the set add_cell gives when called for each
\* anchor + offset (for Random: for each cell its draws hit) one by one.
C24_StampsOnlyAdd ==
    [][/\ ApplyPattern(arg[1], arg[2], arg[3], arg[4]) =>
            /\ live \subseteq live'
            /\ live' = IF arg[1] = 1
                           THEN random_fill(live, width, height, wrap_world, arg[4])
                           ELSE InsertEach(get_pattern_by_index(arg[1]).offsets, 1, live,
                                           width, height, wrap_world, arg[2], arg[3])
       /\ AddCell(arg[2], arg[3]) => live \subseteq live'
       /\ RandomFill(arg[4]) => live \subseteq live']_vars

\* a Blinker anchored left of a bounded board that already held cells: clipped, added to them
C24_Witness ==
    /\ lastOp = "apply_pattern" /\ ~wrap_world /\ arg[1] = 3 /\ arg[2] < 0
    /\ live0 # {} /\ live0 \subseteq live /\ live # live0

\* the largest value a u8 holds
U8_MAX == 255

\* C25: in the count map the counting loops build from the live set of any
\* state, drawn or produced by an advance, no coordinate has a count above 8,
\* so no count leaves the range of the u8 counter.
C25_CountsAtMostEight ==
    LET counts == neighbor_counts(live, width, height, wrap_world)
    IN  \A p \in DOMAIN counts : counts[p] <= 8 /\ counts[p] <= U8_MAX

\* the 2 x 2 torus with all four cells alive: every cell is counted 8 times, and all die
C25_Witness ==
    /\ wrap_world /\ width = 2 /\ height = 2 /\ live0 = Cells(2, 2)
    /\ neighbor_counts(live0, width, height, wrap_world)[<<0, 0>>] = 8
    /\ generation = 1 /\ live = {}

====
